---- MODULE Spec2Model ----
(***************************************************************************)
(* Model of src/main.rs: the packet catalog built by Packet::from_array,   *)
(* and the recursive exhaustive search Problem::search, run step by step   *)
(* on an explicit call stack.                                              *)
(*                                                                         *)
(* A Packet is a record [price, quantity]; a Possibility is the sequence   *)
(* of its packets (packet_list); Option<T> is a sequence of length 0       *)
(* (None) or 1 (Some).                                                     *)
(***************************************************************************)
EXTENDS Integers, Sequences, FiniteSets

\* ---- bounds of the explored inputs ----
MaxLen == 3
MaxPrice == 2
MaxBudget == 2
MaxReq == 4

\* ---- program constant: "no solution yet" marker of search ----
NoCost == -1

VARIABLES price_list, max_packets, required_apples, packet_list,
          pc, stack, result, prev

vars == <<price_list, max_packets, required_apples, packet_list,
          pc, stack, result, prev>>

None == <<>>
Some(x) == <<x>>

\* ---- Packet ----
Packet(price, quantity) == [price |-> price, quantity |-> quantity]

\* Ordering::cmp on integers: -1 Less, 0 Equal, 1 Greater
cmp(x, y) == IF x < y THEN -1 ELSE IF x = y THEN 0 ELSE 1

\* variant: a price of zero is offered too
is_offered_or_free(price) == price >= 0

\* the `if price > &0` test of from_array
is_offered(price) == price > 0

\* the loop of from_array: index is 0-based, the vector is read at index
RECURSIVE push_packets(_, _)
push_packets(prices, len) ==
    IF len = 0 THEN <<>>
    ELSE LET index == len - 1
             quantity == index + 1
             price == prices[index + 1]
             before == push_packets(prices, len - 1)
         IN  IF is_offered(price) THEN Append(before, Packet(price, quantity))
             ELSE before

\* variant: dearest packet first
packet_cmp_dearest_first(a, b) ==
    IF a.price = b.price THEN cmp(a.quantity, b.quantity)
    ELSE cmp(b.price, a.price)

\* variant: among equal prices the larger quantity first
packet_cmp_larger_first(a, b) ==
    IF a.price = b.price THEN cmp(b.quantity, a.quantity)
    ELSE cmp(a.price, b.price)

\* the closure handed to sort_by
packet_cmp(a, b) ==
    IF a.price = b.price THEN cmp(a.quantity, b.quantity)
    ELSE cmp(a.price, b.price)

\* Vec::sort_by is a stable sort: an element goes after every element that
\* does not compare Greater than it
RECURSIVE insert_sorted(_, _)
insert_sorted(s, x) ==
    IF s = <<>> THEN <<x>>
    ELSE IF packet_cmp(x, Head(s)) = -1 THEN <<x>> \o s
    ELSE <<Head(s)>> \o insert_sorted(Tail(s), x)

RECURSIVE sort_by(_)
sort_by(s) ==
    IF s = <<>> THEN <<>>
    ELSE insert_sorted(sort_by(SubSeq(s, 1, Len(s) - 1)), s[Len(s)])

from_array(prices) == sort_by(push_packets(prices, Len(prices)))

\* ---- Possibility ----
empty == <<>>

RECURSIVE total_cost(_)
total_cost(p) == IF p = <<>> THEN 0 ELSE Head(p).price + total_cost(Tail(p))

RECURSIVE total_apples(_)
total_apples(p) == IF p = <<>> THEN 0 ELSE Head(p).quantity + total_apples(Tail(p))

\* variant: one packet too many is allowed
remaining_one_more(p, max) == max + 1 - Len(p)

\* usize subtraction; the value below zero does not exist in the program
remaining(p, max) == max - Len(p)

clone(p) == [i \in 1..Len(p) |-> p[i]]

add(p, new_packet) == Append(p, new_packet)

\* ---- Problem::search, one activation per stack frame ----
\* at = "enter": the activation has not yet run its two early-return tests
\* at = "loop" : the activation is in its for loop; new_possibility_list
\*               holds the candidates not yet searched
Frame(possibility) ==
    [possibility |-> possibility, at |-> "enter",
     new_possibility_list |-> <<>>, best_solution |-> None,
     current_cost |-> NoCost]

\* variant: reaching the target or more counts as found
search_entry_at_least(possibility, required, max) ==
    IF total_apples(possibility) >= required THEN "found"
    ELSE IF remaining(possibility, max) = 0 THEN "exhausted"
    ELSE "expand"

\* variant: the budget test comes first
search_entry_budget_first(possibility, required, max) ==
    IF remaining(possibility, max) = 0 THEN "exhausted"
    ELSE IF total_apples(possibility) = required THEN "found"
    ELSE "expand"

\* the two early-return tests, in program order
search_entry(possibility, required, max) ==
    IF total_apples(possibility) = required THEN "found"
    ELSE IF remaining(possibility, max) = 0 THEN "exhausted"
    ELSE "expand"

\* the map/collect that builds one candidate per catalog packet
extend_all(possibility, packets) ==
    [i \in 1..Len(packets) |-> add(clone(possibility), packets[i])]

\* variant: the first solution found is never replaced
match_arm_keep_first(frame, ret) ==
    IF ret = None THEN frame
    ELSE IF frame.current_cost = NoCost
         THEN [frame EXCEPT !.current_cost = total_cost(ret[1]),
                            !.best_solution = Some(ret[1])]
         ELSE frame

\* variant: no special case for the first solution
match_arm_no_first(frame, ret) ==
    IF ret = None THEN frame
    ELSE IF total_cost(ret[1]) < frame.current_cost
         THEN [frame EXCEPT !.current_cost = total_cost(ret[1]),
                            !.best_solution = Some(ret[1])]
         ELSE frame

\* variant: the comparison is reversed
match_arm_keep_dearest(frame, ret) ==
    IF ret = None THEN frame
    ELSE IF frame.current_cost = NoCost \/ total_cost(ret[1]) > frame.current_cost
         THEN [frame EXCEPT !.current_cost = total_cost(ret[1]),
                            !.best_solution = Some(ret[1])]
         ELSE frame

\* variant: a solution of equal cost replaces the best one
match_arm_replace_ties(frame, ret) ==
    IF ret = None THEN frame
    ELSE IF frame.current_cost = NoCost \/ total_cost(ret[1]) <= frame.current_cost
         THEN [frame EXCEPT !.current_cost = total_cost(ret[1]),
                            !.best_solution = Some(ret[1])]
         ELSE frame

\* the match on the value returned by a recursive call
match_arm(frame, ret) ==
    IF ret = None THEN frame
    ELSE LET solution == ret[1]
             no_solution_yet == frame.current_cost = NoCost
         IN  IF no_solution_yet
             THEN [frame EXCEPT !.current_cost = total_cost(solution),
                                !.best_solution = Some(solution)]
             ELSE LET possible_better_cost == total_cost(solution)
                  IN  IF possible_better_cost < frame.current_cost
                      THEN [frame EXCEPT !.current_cost = total_cost(solution),
                                         !.best_solution = Some(solution)]
                      ELSE frame

Top == stack[Len(stack)]

\* the top activation returns ret: to its caller's match, or out of solution()
Return(ret) ==
    IF Len(stack) = 1
    THEN /\ stack' = <<>>
         /\ result' = ret
         /\ pc' = "done"
    ELSE /\ stack' = Append(SubSeq(stack, 1, Len(stack) - 2),
                            match_arm(stack[Len(stack) - 1], ret))
         /\ UNCHANGED <<result, pc>>

\* a position without a packet is written as a price of -1 or 0
Prices == {-1} \cup (0..MaxPrice)

PriceLists == UNION {[1..n -> Prices] : n \in 0..MaxLen}

Init ==
    /\ price_list \in PriceLists
    /\ max_packets \in 0..MaxBudget
    /\ required_apples \in {-1} \cup (0..MaxReq)
    /\ packet_list = <<>>
    /\ pc = "new"
    /\ stack = <<>>
    /\ result = None
    /\ prev = None

\* Problem::new
ProblemNew ==
    /\ pc = "new"
    /\ packet_list' = from_array(price_list)
    /\ pc' = "ready"
    /\ UNCHANGED <<price_list, max_packets, required_apples, stack, result, prev>>

\* Problem::solution: the call of search on the empty possibility
Solution ==
    /\ pc = "ready"
    /\ stack' = <<Frame(empty)>>
    /\ pc' = "search"
    /\ UNCHANGED <<price_list, max_packets, required_apples, packet_list, result, prev>>

SearchFound ==
    /\ pc = "search"
    /\ Top.at = "enter"
    /\ search_entry(Top.possibility, required_apples, max_packets) = "found"
    /\ Return(Some(Top.possibility))
    /\ UNCHANGED <<price_list, max_packets, required_apples, packet_list, prev>>

SearchExhausted ==
    /\ pc = "search"
    /\ Top.at = "enter"
    /\ search_entry(Top.possibility, required_apples, max_packets) = "exhausted"
    /\ Return(None)
    /\ UNCHANGED <<price_list, max_packets, required_apples, packet_list, prev>>

SearchExpand ==
    /\ pc = "search"
    /\ Top.at = "enter"
    /\ search_entry(Top.possibility, required_apples, max_packets) = "expand"
    /\ stack' = [stack EXCEPT ![Len(stack)] =
                    [@ EXCEPT !.at = "loop",
                              !.new_possibility_list =
                                  extend_all(Top.possibility, packet_list),
                              !.best_solution = None,
                              !.current_cost = NoCost]]
    /\ UNCHANGED <<price_list, max_packets, required_apples, packet_list,
                   pc, result, prev>>

\* one iteration of the for loop: the recursive call on the next candidate
SearchRecurse ==
    /\ pc = "search"
    /\ Top.at = "loop"
    /\ Top.new_possibility_list # <<>>
    /\ stack' = Append([stack EXCEPT ![Len(stack)].new_possibility_list = Tail(@)],
                       Frame(Head(Top.new_possibility_list)))
    /\ UNCHANGED <<price_list, max_packets, required_apples, packet_list,
                   pc, result, prev>>

\* the loop is over: return best_solution
SearchReturnBest ==
    /\ pc = "search"
    /\ Top.at = "loop"
    /\ Top.new_possibility_list = <<>>
    /\ Return(Top.best_solution)
    /\ UNCHANGED <<price_list, max_packets, required_apples, packet_list, prev>>

\* a second Problem over the same prices and target with a budget at least
\* as large, as the successive Problem::new(..).solution() calls of
\* test_problem_solving
NextProblem ==
    /\ pc = "done"
    /\ prev = None
    /\ \E m2 \in max_packets..MaxBudget :
          max_packets' = m2
    /\ prev' = Some([max_packets |-> max_packets, result |-> result])
    /\ packet_list' = <<>>
    /\ result' = None
    /\ pc' = "new"
    /\ UNCHANGED <<price_list, required_apples, stack>>

Next ==
    \/ ProblemNew
    \/ Solution
    \/ SearchFound
    \/ SearchExhausted
    \/ SearchExpand
    \/ SearchRecurse
    \/ SearchReturnBest
    \/ NextProblem

Spec == Init /\ [][Next]_vars

\* ascending price, then ascending quantity
InPriceOrder(a, b) ==
    /\ a.price <= b.price
    /\ a.price = b.price => a.quantity <= b.quantity

\* ---- reference: every selection of catalog packets, by brute force ----
\* c[i] is the number of units of packet_list[i]
Selections == [1..Len(packet_list) -> 0..max_packets]

RECURSIVE SelCount(_, _)
SelCount(c, n) == IF n = 0 THEN 0 ELSE c[n] + SelCount(c, n - 1)

RECURSIVE SelApples(_, _)
SelApples(c, n) ==
    IF n = 0 THEN 0 ELSE c[n] * packet_list[n].quantity + SelApples(c, n - 1)

RECURSIVE SelCost(_, _)
SelCost(c, n) ==
    IF n = 0 THEN 0 ELSE c[n] * packet_list[n].price + SelCost(c, n - 1)

Feasible ==
    {c \in Selections :
        /\ SelCount(c, Len(packet_list)) <= max_packets
        /\ SelApples(c, Len(packet_list)) = required_apples}

Built == pc \in {"ready", "search", "done"}
Returned == pc = "done" /\ result # None
Catalog == {packet_list[i] : i \in 1..Len(packet_list)}

\* C1: when solution() returns a Possibility, no selection of catalog
\* packets (repeats allowed) of at most max_packets packets and total
\* quantity exactly required_apples is strictly cheaper than it.
C1_Optimality ==
    Returned =>
        \A c \in Feasible : SelCost(c, Len(packet_list)) >= total_cost(result[1])

C1_Witness ==
    /\ Returned
    /\ Len(result[1]) >= 2
    /\ \E c \in Feasible : SelCost(c, Len(packet_list)) > total_cost(result[1])

\* C2: a returned Possibility has total_apples equal to required_apples,
\* holds at most max_packets packets, and every one is a catalog packet.
C2_FeasibilitySound ==
    Returned =>
        /\ total_apples(result[1]) = required_apples
        /\ Len(result[1]) <= max_packets
        /\ \A i \in 1..Len(result[1]) : result[1][i] \in Catalog

C2_Witness ==
    /\ Returned
    /\ \E i, j \in 1..Len(result[1]) : result[1][i] # result[1][j]

\* C3: solution() returns None exactly when no selection of at most
\* max_packets catalog packets has total quantity required_apples.
C3_FailureComplete ==
    pc = "done" => ((result = None) <=> (Feasible = {}))

C3_Witness ==
    /\ pc = "done"
    /\ result = None
    /\ Len(packet_list) >= 2
    /\ max_packets >= 1
    /\ required_apples >= 2

\* C4: from_array creates a Packet for position i (0-based) exactly when
\* price_list[i] is strictly positive, with that price and quantity i+1;
\* the catalog holds nothing else and no packet twice.
C4_Filtering ==
    Built =>
        /\ \A i \in 0..(Len(price_list) - 1) :
              /\ (price_list[i + 1] > 0) <=>
                     (\E k \in 1..Len(packet_list) : packet_list[k].quantity = i + 1)
              /\ price_list[i + 1] > 0 =>
                     Packet(price_list[i + 1], i + 1) \in Catalog
        /\ \A k \in 1..Len(packet_list) :
              /\ packet_list[k].quantity \in 1..Len(price_list)
              /\ packet_list[k].price = price_list[packet_list[k].quantity]
        /\ \A j, k \in 1..Len(packet_list) :
              j # k => packet_list[j] # packet_list[k]

C4_Witness ==
    /\ pc = "ready"
    /\ \E i, j, k \in 1..Len(price_list) :
          /\ i < j /\ j < k
          /\ price_list[i] > 0 /\ price_list[j] = 0 /\ price_list[k] > 0
    /\ Len(packet_list) = 2

\* C5 as stated: the catalog is ranked by unit cost, A before B implies
\* A.price * B.quantity <= B.price * A.quantity, and on equal products
\* A.quantity >= B.quantity.
C5_UnitCostRanking ==
    Built =>
        \A i, j \in 1..Len(packet_list) :
            i < j =>
                LET A == packet_list[i]
                    B == packet_list[j]
                IN  /\ A.price * B.quantity <= B.price * A.quantity
                    /\ A.price * B.quantity = B.price * A.quantity =>
                           A.quantity >= B.quantity

\* C5 amended: the catalog is ranked by price, not by unit cost: A before B
\* implies A.price <= B.price, and on equal prices A.quantity < B.quantity
\* (the smaller quantity ranks first).
C5_PriceRanking ==
    Built =>
        \A i, j \in 1..Len(packet_list) :
            i < j =>
                LET A == packet_list[i]
                    B == packet_list[j]
                IN  /\ A.price <= B.price
                    /\ A.price = B.price => A.quantity < B.quantity

C5_Witness ==
    /\ pc = "ready"
    /\ \E i, j \in 1..Len(packet_list) :
          /\ i < j
          /\ packet_list[i].price * packet_list[j].quantity
                 > packet_list[j].price * packet_list[i].quantity
    /\ \E i, j \in 1..Len(packet_list) :
          /\ i < j
          /\ packet_list[i].price = packet_list[j].price

\* C6: the catalog is sorted by ascending price, and packets of equal
\* price by ascending quantity.
C6_SortedByPrice ==
    Built =>
        \A i \in 1..Len(packet_list) : \A j \in (i + 1)..Len(packet_list) :
            InPriceOrder(packet_list[i], packet_list[j])

C6_Witness ==
    /\ pc = "ready"
    /\ Len(packet_list) = 3
    /\ packet_list[1].quantity = 3
    /\ packet_list[2].price = packet_list[3].price

\* C7: for fixed prices and target and budgets m1 <= m2, if solution()
\* returns a Possibility under m1 it returns one under m2 as well, of a
\* cost not greater.
C7_BudgetMonotone ==
    (pc = "done" /\ prev # None /\ prev[1].result # None) =>
        /\ result # None
        /\ total_cost(result[1]) <= total_cost(prev[1].result[1])

C7_Witness ==
    /\ pc = "done"
    /\ prev # None
    /\ prev[1].result # None
    /\ prev[1].max_packets < max_packets
    /\ result # None
    /\ Len(result[1]) > prev[1].max_packets

\* C8 as stated: with an empty catalog solution() returns None for every
\* budget and every target, the target 0 included.
C8_EmptyCatalogInfeasible ==
    (pc = "done" /\ packet_list = <<>>) => result = None

\* C8 amended: with an empty catalog solution() returns None for every
\* budget and every target other than 0; for the target 0 it returns the
\* empty Possibility.
C8_EmptyCatalog ==
    (pc = "done" /\ packet_list = <<>>) =>
        IF required_apples = 0 THEN result = Some(empty) ELSE result = None

C8_Witness ==
    /\ pc = "done"
    /\ packet_list = <<>>
    /\ Len(price_list) >= 2
    /\ max_packets >= 1
    /\ required_apples >= 1
    /\ result = None

First == packet_list[1]
Step == required_apples \div First.quantity
FastPath ==
    /\ pc = "done"
    /\ required_apples >= 0
    /\ packet_list # <<>>
    /\ required_apples % First.quantity = 0
    /\ Step <= max_packets
FirstIsBestUnit ==
    \A k \in 1..Len(packet_list) :
        First.price * packet_list[k].quantity <= packet_list[k].price * First.quantity

\* C9 as stated: when required_apples is a multiple of the first catalog
\* packet's quantity and step = required_apples / quantity <= max_packets,
\* the result is exactly step units of that packet.
C9_GreedyFastPath ==
    FastPath => result = Some([i \in 1..Step |-> First])

\* C9 amended: the same, provided the first catalog packet also has the
\* least unit cost of the catalog (ties allowed).
C9_FastPathBestUnit ==
    (FastPath /\ FirstIsBestUnit) => result = Some([i \in 1..Step |-> First])

C9_Witness ==
    /\ FastPath
    /\ FirstIsBestUnit
    /\ Step >= 2
    /\ \E c \in Feasible :
          /\ c[1] = 0
          /\ SelCost(c, Len(packet_list)) = Step * First.price
    /\ result = Some([i \in 1..Step |-> First])

\* C10: every activation of search holds a possibility of at most
\* max_packets packets, so remaining() never subtracts below zero, and at
\* most max_packets + 1 activations are nested.
C10_BudgetInvariant ==
    /\ \A d \in 1..Len(stack) :
          /\ Len(stack[d].possibility) <= max_packets
          /\ remaining(stack[d].possibility, max_packets) >= 0
    /\ Len(stack) <= max_packets + 1

C10_Witness ==
    /\ pc = "search"
    /\ max_packets >= 2
    /\ Len(stack) = max_packets + 1
    /\ Top.at = "enter"
    /\ search_entry(Top.possibility, required_apples, max_packets) = "exhausted"

TypeOK ==
    /\ pc \in {"new", "ready", "search", "done"}
    /\ Len(result) <= 1
    /\ Len(prev) <= 1
    /\ (pc = "search") <=> (stack # <<>>)
====
